---- MODULE Spec2Model ----
(***************************************************************************)
(* A model of train.py: the epoch loop of main() with checkpointing and   *)
(* resume, the learning-rate schedule, the AverageMeter accumulator, the  *)
(* top-k accuracy function and the validation pass.                       *)
(*                                                                         *)
(* Python floats are modelled as exact rationals <<numerator, denominator>>*)
(* in lowest terms, so 0.2 is <<1, 5>> and sum / count is exact.          *)
(***************************************************************************)
EXTENDS Integers, Sequences, FiniteSets

(***************************************************************************)
(* Bounds of the model.                                                    *)
(***************************************************************************)
\* launches of the program (a first run and restarts of it)
MaxRuns == 2
\* epochs a launch is asked to run past its --start-epoch
MaxRun == 2
\* validation accuracies are drawn from 0 .. MaxPrec
MaxPrec == 2
\* update calls on a meter between two resets
MaxUpdates == 3
\* meter weights are drawn from 0 .. MaxWeight
MaxWeight == 2
\* meter values are the fractions n / d, n in 0 .. MaxNum, d in 1 .. MaxDen
MaxNum == 2
MaxDen == 2
\* samples in a batch
MaxBatch == 2
\* classes the network scores
NumClasses == 3
\* class scores are drawn from 0 .. MaxScore
MaxScore == 2
\* entries of the topk argument of accuracy
MaxTopkLen == 2
\* samples in the validation set
MaxValSet == 5

(***************************************************************************)
(* Rational arithmetic.                                                    *)
(***************************************************************************)
Abs(n) == IF n < 0 THEN 0 - n ELSE n

RECURSIVE GCD(_, _)
GCD(a, b) == IF b = 0 THEN a ELSE GCD(b, a % b)

\* the rational n/d (d > 0) in lowest terms
Norm(q) ==
    LET g == GCD(Abs(q[1]), q[2])
    IN  <<q[1] \div g, q[2] \div g>>

RInt(n) == <<n, 1>>
RAdd(a, b) == Norm(<<a[1] * b[2] + b[1] * a[2], a[2] * b[2]>>)
RMul(a, b) == Norm(<<a[1] * b[1], a[2] * b[2]>>)
\* a / n for an integer n > 0
RDivInt(a, n) == Norm(<<a[1], a[2] * n>>)

\* base ** k for k in {0, 1}: Python's int(bool) exponent
RPow(base, k) == IF k = 0 THEN RInt(1) ELSE base

BoolToInt(b) == IF b THEN 1 ELSE 0

SeqMax(s, floor) ==
    LET RECURSIVE M(_, _)
        M(i, acc) == IF i > Len(s) THEN acc
                     ELSE M(i + 1, IF s[i] > acc THEN s[i] ELSE acc)
    IN  M(1, floor)

(***************************************************************************)
(* The learning-rate schedule.                                             *)
(***************************************************************************)
LrStep1 == 60
LrStep2 == 120
LrStep3 == 160
Fifth == <<1, 5>>

\* LrFactor with each decay taking effect one epoch late
LrFactorLate(e) ==
    RMul(RMul(RPow(Fifth, BoolToInt(e > LrStep1)),
              RPow(Fifth, BoolToInt(e > LrStep2))),
         RPow(Fifth, BoolToInt(e > LrStep3)))

\* the factor args.lr is multiplied by for the 1-indexed epoch number e
LrFactor(e) ==
    RMul(RMul(RPow(Fifth, BoolToInt(e >= LrStep1)),
              RPow(Fifth, BoolToInt(e >= LrStep2))),
         RPow(Fifth, BoolToInt(e >= LrStep3)))

\* the value adjust_learning_rate writes to param_group["lr"]
AdjustedLr(base_lr, e) == RMul(base_lr, LrFactor(e))

(***************************************************************************)
(* State of the program and of the files it leaves behind.                 *)
(***************************************************************************)
VARIABLES
    pc,            \* position of main(): off, resume, loop, train, validate, save, done, crashed
    run,           \* launches so far
    args,          \* parsed command line: start_epoch, epochs, resume, lr
    best_prec1,    \* the module global
    model_params,  \* the epochs whose training pass produced the parameters
    epoch,         \* loop index of the for statement
    lr,            \* param_group["lr"] of the optimizer
    prec1,         \* result of validate() in this epoch
    is_best,
    fs,            \* files under runs/<name>/: <<>> when absent, <<record>> otherwise
    outcome,       \* what the resume block did: none, loaded, notfound
    cli_start,     \* --start-epoch as given on the command line
    restored,      \* best_prec1 read from the checkpoint file, -1 when none was read
    copied,        \* whether the last save_checkpoint call ran shutil.copyfile
    runPrecs,      \* validation accuracies of the epochs completed in this launch
    log            \* steps taken in this launch, in order

mainVars == <<pc, run, args, best_prec1, model_params, epoch, lr, prec1, is_best,
              fs, outcome, cli_start, restored, copied, runPrecs, log>>

\* an AverageMeter and the calls made on it
VARIABLES
    meter,         \* the fields val, avg, sum, count
    raised,        \* whether the last call ended in ZeroDivisionError
    updates        \* the <<value, weight>> of the update calls since the last reset

meterVars == <<meter, raised, updates>>

\* one call of accuracy()
VARIABLES
    acc_pc,        \* call, returned
    output,        \* one row of class scores per sample
    target,        \* one label per sample
    topk,          \* the k values asked for
    pred,          \* the indices output.topk returned, one row per sample
    res            \* the list accuracy() returns

accVars == <<acc_pc, output, target, topk, pred, res>>

\* calls of validate()
VARIABLES
    val_pc,        \* idle, iterate, returned
    val_size,      \* samples in the validation set
    val_left,      \* samples the loader has not yielded yet
    batch_size,    \* args.batch_size
    top1,          \* the accuracy meter of the call
    val_ret,       \* the value the call returned
    seen_correct,  \* samples of this call whose top prediction was their label
    seen_total     \* samples of this call

valVars == <<val_pc, val_size, val_left, batch_size, top1, val_ret, seen_correct, seen_total>>

vars == <<mainVars, meterVars, accVars, valVars>>

CheckpointPath == "checkpoint.pth.tar"
BestPath == "model_best.pth.tar"
Paths == {CheckpointPath, BestPath, "nonexistent.pth.tar"}
ResumeArgs == {""} \cup Paths

StartEpochs == {0, LrStep1 - 2, LrStep2 - 2, LrStep3 - 2}
LrVals == {<<1, 10>>, <<1, 20>>}
PrecVals == 0 .. MaxPrec

IsFile(path) == path \in DOMAIN fs /\ fs[path] # <<>>

NoArgs == [start_epoch |-> 0, epochs |-> 0, resume |-> "", lr |-> <<1, 10>>]

\* the memory of a process that is not running
ProcessGone ==
    /\ args' = NoArgs
    /\ best_prec1' = 0
    /\ model_params' = <<>>
    /\ epoch' = 0
    /\ lr' = <<1, 10>>
    /\ prec1' = 0
    /\ is_best' = FALSE
    /\ outcome' = "none"
    /\ cli_start' = 0
    /\ restored' = -1
    /\ copied' = FALSE
    /\ runPrecs' = <<>>
    /\ log' = <<>>

MainInit ==
    /\ pc = "off"
    /\ run = 0
    /\ args = NoArgs
    /\ best_prec1 = 0
    /\ model_params = <<>>
    /\ epoch = 0
    /\ lr = <<1, 10>>
    /\ prec1 = 0
    /\ is_best = FALSE
    /\ fs = [p \in Paths |-> <<>>]
    /\ outcome = "none"
    /\ cli_start = 0
    /\ restored = -1
    /\ copied = FALSE
    /\ runPrecs = <<>>
    /\ log = <<>>

\* the epoch the loop of a launch with --start-epoch s and --resume r starts at
FirstEpoch(s, r) == IF IsFile(r) THEN fs[r][1].epoch ELSE s

\* the --epochs values a launch is given: they leave it at most MaxRun epochs
EpochsArgs(s, r) ==
    {n \in {s + d : d \in 0 .. MaxRun} \cup {FirstEpoch(s, r) + d : d \in 0 .. MaxRun} :
        n - FirstEpoch(s, r) <= MaxRun}

\* the program is started: the module is loaded, main() parses the command
\* line and constructs a fresh model
Launch ==
    /\ pc = "off"
    /\ run < MaxRuns
    /\ run' = run + 1
    /\ \E s \in StartEpochs, r \in ResumeArgs, l \in LrVals :
       \E n \in EpochsArgs(s, r) :
          /\ args' = [start_epoch |-> s, epochs |-> n, resume |-> r, lr |-> l]
          /\ cli_start' = s
          /\ lr' = l
    /\ best_prec1' = 0
    /\ model_params' = <<>>
    /\ pc' = "resume"
    /\ UNCHANGED <<epoch, prec1, is_best, fs, outcome, restored, copied, runPrecs, log>>
    /\ UNCHANGED <<meterVars, accVars, valVars>>

\* ResumeBranch without the os.path.isfile test
ResumeBranchNoIsFile ==
    IF args.resume = "" THEN "none" ELSE "loaded"

\* which branch of the resume block runs
ResumeBranch ==
    IF args.resume = "" THEN "none"
    ELSE IF IsFile(args.resume) THEN "loaded" ELSE "notfound"

\* the resume block, then the construction of the optimizer
Resume ==
    /\ pc = "resume"
    /\ LET branch == ResumeBranch IN
       IF branch = "loaded" /\ ~IsFile(args.resume)
       THEN \* torch.load raises on a path that is no file
            /\ pc' = "crashed"
            /\ UNCHANGED <<args, best_prec1, model_params, restored, outcome, epoch, lr>>
       ELSE /\ outcome' = branch
            /\ IF branch = "loaded"
               THEN LET checkpoint == fs[args.resume][1] IN
                    /\ args' = [args EXCEPT !.start_epoch = checkpoint.epoch]
                    /\ best_prec1' = checkpoint.best_prec1
                    /\ model_params' = checkpoint.state_dict
                    /\ restored' = checkpoint.best_prec1
               ELSE UNCHANGED <<args, best_prec1, model_params, restored>>
            /\ lr' = args.lr
            /\ epoch' = args'.start_epoch
            /\ pc' = "loop"
    /\ UNCHANGED <<run, prec1, is_best, fs, cli_start, copied, runPrecs, log>>
    /\ UNCHANGED <<meterVars, accVars, valVars>>

\* the for statement finds another epoch and adjust_learning_rate runs
AdjustLearningRate ==
    /\ pc = "loop"
    /\ epoch < args.epochs
    /\ lr' = AdjustedLr(args.lr, epoch + 1)
    /\ log' = Append(log, <<"lr", epoch>>)
    /\ pc' = "train"
    /\ UNCHANGED <<run, args, best_prec1, model_params, epoch, prec1, is_best, fs,
                   outcome, cli_start, restored, copied, runPrecs>>
    /\ UNCHANGED <<meterVars, accVars, valVars>>

\* the range is exhausted: main() prints the best accuracy and returns
LoopExit ==
    /\ pc = "loop"
    /\ epoch >= args.epochs
    /\ pc' = "done"
    /\ UNCHANGED <<run, args, best_prec1, model_params, epoch, lr, prec1, is_best, fs,
                   outcome, cli_start, restored, copied, runPrecs, log>>
    /\ UNCHANGED <<meterVars, accVars, valVars>>

\* one training pass changes the parameters
Train ==
    /\ pc = "train"
    /\ model_params' = Append(model_params, epoch)
    /\ log' = Append(log, <<"train", epoch>>)
    /\ pc' = "validate"
    /\ UNCHANGED <<run, args, best_prec1, epoch, lr, prec1, is_best, fs,
                   outcome, cli_start, restored, copied, runPrecs>>
    /\ UNCHANGED <<meterVars, accVars, valVars>>

\* validate() returns the average top-1 accuracy of the epoch
Validate ==
    /\ pc = "validate"
    /\ \E p \in PrecVals : prec1' = p
    /\ log' = Append(log, <<"validate", epoch>>)
    /\ pc' = "save"
    /\ UNCHANGED <<run, args, best_prec1, model_params, epoch, lr, is_best, fs,
                   outcome, cli_start, restored, copied, runPrecs>>
    /\ UNCHANGED <<meterVars, accVars, valVars>>

\* IsBest with a tie counted as an improvement
IsBestOrTie(p, best) == p >= best

IsBest(p, best) == p > best

\* Max that keeps the newer value
MaxKeepsFirst(a, b) == a

Max(a, b) == IF a > b THEN a ELSE b

\* CheckpointRecord with the loop index stored as it is
CheckpointRecordSameEpoch(e, params, best) ==
    [epoch |-> e, state_dict |-> params, best_prec1 |-> best]

\* the record main() hands to save_checkpoint
CheckpointRecord(e, params, best) ==
    [epoch |-> e + 1, state_dict |-> params, best_prec1 |-> best]

\* whether save_checkpoint copies the file it wrote to the best file
CopiesBest(best_flag) == best_flag

\* SaveCheckpoint that writes nothing unless the epoch improved the best
SaveCheckpointOnlyIfBest(files, state, best_flag) ==
    IF best_flag
    THEN [files EXCEPT ![CheckpointPath] = <<state>>, ![BestPath] = <<state>>]
    ELSE files

\* the files after save_checkpoint(state, best_flag)
SaveCheckpoint(files, state, best_flag) ==
    LET saved == [files EXCEPT ![CheckpointPath] = <<state>>]
    IN  IF CopiesBest(best_flag)
        THEN [saved EXCEPT ![BestPath] = saved[CheckpointPath]]
        ELSE saved

\* the rest of the loop body: is_best, best_prec1, save_checkpoint
Checkpoint ==
    /\ pc = "save"
    /\ is_best' = IsBest(prec1, best_prec1)
    /\ best_prec1' = Max(prec1, best_prec1)
    /\ LET state == CheckpointRecord(epoch, model_params, best_prec1') IN
       /\ fs' = SaveCheckpoint(fs, state, is_best')
       /\ log' = Append(log, <<"checkpoint", state.epoch>>)
    /\ copied' = CopiesBest(is_best')
    /\ runPrecs' = Append(runPrecs, prec1)
    /\ epoch' = epoch + 1
    /\ pc' = "loop"
    /\ UNCHANGED <<run, args, model_params, lr, prec1, outcome, cli_start, restored>>
    /\ UNCHANGED <<meterVars, accVars, valVars>>

\* main() has returned and the process ends
Exit ==
    /\ pc = "done"
    /\ pc' = "off"
    /\ ProcessGone
    /\ UNCHANGED <<run, fs>>
    /\ UNCHANGED <<meterVars, accVars, valVars>>

\* the process is terminated from outside between two steps
Kill ==
    /\ pc \in {"resume", "loop", "train", "validate", "save"}
    /\ pc' = "off"
    /\ ProcessGone
    /\ UNCHANGED <<run, fs>>
    /\ UNCHANGED <<meterVars, accVars, valVars>>

(***************************************************************************)
(* AverageMeter.                                                           *)
(***************************************************************************)
Zero == RInt(0)

\* the fields after reset()
ResetMeter == [val |-> Zero, avg |-> Zero, sum |-> Zero, count |-> 0]

\* whether update(val, n) on m ends in ZeroDivisionError at sum / count
UpdateRaises(m, n) == m.count + n = 0

\* MeterUpdate adding the value to the sum once, whatever its weight
MeterUpdateUnweighted(m, v, n) ==
    LET s == RAdd(m.sum, v)
        c == m.count + n
    IN  [val |-> v, sum |-> s, count |-> c,
         avg |-> IF c = 0 THEN m.avg ELSE RDivInt(s, c)]

\* the fields after update(v, n): avg keeps its value when the division raises
MeterUpdate(m, v, n) ==
    LET s == RAdd(m.sum, RMul(v, RInt(n)))
        c == m.count + n
    IN  [val |-> v, sum |-> s, count |-> c,
         avg |-> IF c = 0 THEN m.avg ELSE RDivInt(s, c)]

MeterVals == {Norm(<<n, d>>) : n \in 0 .. MaxNum, d \in 1 .. MaxDen}

MeterInit ==
    /\ meter = ResetMeter
    /\ raised = FALSE
    /\ updates = <<>>

Reset ==
    /\ meter' = ResetMeter
    /\ raised' = FALSE
    /\ updates' = <<>>
    /\ UNCHANGED <<mainVars, accVars, valVars>>

Update ==
    /\ Len(updates) < MaxUpdates
    /\ \E v \in MeterVals, n \in 0 .. MaxWeight :
          /\ meter' = MeterUpdate(meter, v, n)
          /\ raised' = UpdateRaises(meter, n)
          /\ updates' = Append(updates, <<v, n>>)
    /\ UNCHANGED <<mainVars, accVars, valVars>>

(***************************************************************************)
(* accuracy().                                                             *)
(***************************************************************************)
\* class labels and topk indices count from 0
Classes == 0 .. NumClasses - 1
Scores == 0 .. MaxScore
Rows == [Classes -> Scores]

Range(f) == {f[i] : i \in DOMAIN f}

\* the index rows topk(k, largest, sorted) may return for one row of scores:
\* k distinct classes in descending order of score, none outscored by a class
\* left out; which of several equal scores comes first is not fixed
TopKOfRow(row, k) ==
    {p \in [1 .. k -> Classes] :
        /\ \A i, j \in 1 .. k : i # j => p[i] # p[j]
        /\ \A i \in 1 .. k - 1 : row[p[i]] >= row[p[i + 1]]
        /\ \A c \in Classes \ Range(p) : row[c] <= row[p[k]]}

RECURSIVE TopKResults(_, _)
\* the results output.topk(maxk, 1, True, True) may give for a batch: one
\* index row per sample
TopKResults(out, maxk) ==
    IF Len(out) = 0 THEN {<<>>}
    ELSE {Append(p, r) : p \in TopKResults(SubSeq(out, 1, Len(out) - 1), maxk),
                         r \in TopKOfRow(out[Len(out)], maxk)}

\* Accuracy counting for k the k-th prediction alone
AccuracyKthOnly(tgt, tk, prd) ==
    LET size == Len(tgt)
        correct == [k \in 1 .. SeqMax(tk, tk[1]) |->
                       [i \in 1 .. size |-> prd[i][k] = tgt[i]]]
        correct_k(k) ==
            Cardinality({c \in {k} \X (1 .. size) : correct[c[1]][c[2]]})
    IN  [j \in 1 .. Len(tk) |->
            RMul(RInt(correct_k(tk[j])), RDivInt(RInt(100), size))]

\* the list accuracy() returns, given the indices topk returned
Accuracy(tgt, tk, prd) ==
    LET size == Len(tgt)
        correct == [k \in 1 .. SeqMax(tk, tk[1]) |->
                       [i \in 1 .. size |-> prd[i][k] = tgt[i]]]
        correct_k(k) ==
            Cardinality({c \in (1 .. k) \X (1 .. size) : correct[c[1]][c[2]]})
    IN  [j \in 1 .. Len(tk) |->
            RMul(RInt(correct_k(tk[j])), RDivInt(RInt(100), size))]

TopkArgs == UNION {[1 .. n -> 1 .. NumClasses] : n \in 1 .. MaxTopkLen}

AccIdle ==
    /\ acc_pc = "returned"
    /\ output = <<>>
    /\ target = <<>>
    /\ topk = <<>>
    /\ pred = <<>>
    /\ res = <<>>

\* a batch and the k values accuracy() is called with
AccInit ==
    /\ acc_pc = "call"
    /\ \E n \in 1 .. MaxBatch :
          /\ output \in [1 .. n -> Rows]
          /\ target \in [1 .. n -> Classes]
    /\ topk \in TopkArgs
    /\ pred = <<>>
    /\ res = <<>>

AccuracyCall ==
    /\ acc_pc = "call"
    /\ \E p \in TopKResults(output, SeqMax(topk, topk[1])) :
          /\ pred' = p
          /\ res' = Accuracy(target, topk, p)
    /\ acc_pc' = "returned"
    /\ UNCHANGED <<output, target, topk>>
    /\ UNCHANGED <<mainVars, meterVars, valVars>>

(***************************************************************************)
(* validate().                                                             *)
(***************************************************************************)
\* the rows the network gives in the validation pass: one class scored above
\* the others, or all classes scored alike
ValRows == {[c \in Classes |-> IF c = top THEN 1 ELSE 0] : top \in Classes}
           \cup {[c \in Classes |-> 0]}

Min(a, b) == IF a < b THEN a ELSE b

\* the weight validate() gives a batch of n samples in its meters
BatchWeightOne(n) == 1

BatchWeight(n) == n

ValIdle ==
    /\ val_pc = "idle"
    /\ val_size = 0
    /\ val_left = 0
    /\ batch_size = 1
    /\ top1 = ResetMeter
    /\ val_ret = Zero
    /\ seen_correct = 0
    /\ seen_total = 0

\* validate() is called: its meters are constructed and the loader starts
ValidateEnter ==
    /\ val_pc \in {"idle", "returned"}
    /\ \E n \in 1 .. MaxValSet, b \in 1 .. MaxBatch :
          /\ val_size' = n
          /\ val_left' = n
          /\ batch_size' = b
    /\ top1' = ResetMeter
    /\ val_ret' = Zero
    /\ seen_correct' = 0
    /\ seen_total' = 0
    /\ val_pc' = "iterate"
    /\ UNCHANGED <<mainVars, meterVars, accVars>>

\* one batch of the loader, in whatever order it yields the samples; the last
\* batch holds what is left
ValidateBatch ==
    /\ val_pc = "iterate"
    /\ val_left > 0
    /\ LET n == Min(batch_size, val_left) IN
       \E out \in [1 .. n -> ValRows], tgt \in [1 .. n -> Classes] :
       \E p \in TopKResults(out, 1) :
          LET batch_prec1 == Accuracy(tgt, <<1>>, p)[1] IN
          /\ top1' = MeterUpdate(top1, batch_prec1, BatchWeight(n))
          /\ seen_correct' = seen_correct
                               + Cardinality({i \in 1 .. n : p[i][1] = tgt[i]})
          /\ seen_total' = seen_total + n
          /\ val_left' = val_left - n
    /\ UNCHANGED <<val_pc, val_size, batch_size, val_ret>>
    /\ UNCHANGED <<mainVars, meterVars, accVars>>

\* the loader is exhausted and validate() returns top1.avg
ValidateReturn ==
    /\ val_pc = "iterate"
    /\ val_left = 0
    /\ val_ret' = top1.avg
    /\ val_pc' = "returned"
    /\ UNCHANGED <<val_size, val_left, batch_size, top1, seen_correct, seen_total>>
    /\ UNCHANGED <<mainVars, meterVars, accVars>>

(***************************************************************************)
(* Specifications.                                                         *)
(***************************************************************************)
Next ==
    \/ Launch
    \/ Resume
    \/ AdjustLearningRate
    \/ LoopExit
    \/ Train
    \/ Validate
    \/ Checkpoint
    \/ Exit
    \/ Kill

Init == MainInit /\ MeterInit /\ AccIdle /\ ValIdle

Spec == Init /\ [][Next]_vars

\* an AverageMeter under arbitrary calls
MeterNext == Reset \/ Update

SpecMeter == Init /\ [][MeterNext]_vars

\* accuracy() on arbitrary batches
AccuracyInit == MainInit /\ MeterInit /\ AccInit /\ ValIdle

AccuracyNext == AccuracyCall

SpecAccuracy == AccuracyInit /\ [][AccuracyNext]_vars

\* validate() called again and again
ValidateNext == ValidateEnter \/ ValidateBatch \/ ValidateReturn

SpecValidate == Init /\ [][ValidateNext]_vars

(***************************************************************************)
(* Properties of the epoch loop.                                           *)
(***************************************************************************)
Last(s) == s[Len(s)]

\* the validation accuracy of the epoch completed last in this launch
LastPrec == Last(runPrecs)

\* the accuracies of the epochs this launch completed before the last one
PriorPrecs == SubSeq(runPrecs, 1, Len(runPrecs) - 1)

\* best_prec1 as the launch started its loop: 0, or the checkpoint's value
StartingBest == IF restored >= 0 THEN restored ELSE 0

\* C1 as stated: after every completed epoch, the best file was overwritten in
\* that epoch if and only if the epoch's validation accuracy strictly exceeds
\* the validation accuracy of every earlier epoch of the same launch.
C1_BestIffExceedsPriorEpochs ==
    runPrecs # <<>> =>
        (copied <=> \A i \in 1 .. Len(PriorPrecs) : LastPrec > PriorPrecs[i])

\* C1 amended: after every completed epoch, the best file was overwritten in
\* that epoch (and then equals the checkpoint file) if and only if the epoch's
\* validation accuracy strictly exceeds best_prec1 as it stood before the
\* epoch: the maximum of the starting value (0, or the value restored from the
\* checkpoint) and of the accuracies of the earlier epochs of the launch.
C1_BestIffExceedsBestSoFar ==
    runPrecs # <<>> =>
        /\ copied <=> LastPrec > SeqMax(PriorPrecs, StartingBest)
        /\ copied <=> fs[BestPath] = fs[CheckpointPath]

\* a tie with a positive best so far, in a launch resumed from a checkpoint
C1_Witness ==
    /\ Len(runPrecs) >= 2
    /\ outcome = "loaded"
    /\ LastPrec = SeqMax(PriorPrecs, StartingBest)
    /\ LastPrec > 0
    /\ ~copied

\* the maximum the claim names: of the accuracies of the completed epochs and,
\* when a checkpoint was loaded, of the restored value
ObservedMax ==
    LET m == SeqMax(runPrecs, runPrecs[1])
    IN  IF outcome = "loaded" THEN Max(m, restored) ELSE m

\* C2: after every completed epoch best_prec1 is the maximum of the validation
\* accuracies of the epochs completed so far and of the value restored from a
\* checkpoint, the checkpoint file holds that value, and within a launch
\* best_prec1 never decreases.
C2_BestIsMaximum ==
    /\ [](runPrecs # <<>> =>
            /\ best_prec1 = ObservedMax
            /\ IsFile(CheckpointPath)
            /\ fs[CheckpointPath][1].best_prec1 = ObservedMax)
    /\ [][pc' # "off" => best_prec1' >= best_prec1]_vars

\* a resumed launch whose restored best exceeds every accuracy it has seen
C2_Witness ==
    /\ Len(runPrecs) >= 2
    /\ outcome = "loaded"
    /\ restored > SeqMax(runPrecs, 0)
    /\ runPrecs[2] < runPrecs[1]

\* the decimal m / 1000
Milli(m) == Norm(<<m, 1000>>)

\* the multiplier the specification tabulates for epoch number e
ScheduleTable(e) ==
    IF e < 60 THEN Milli(1000)
    ELSE IF e < 120 THEN Milli(200)
    ELSE IF e < 160 THEN Milli(40)
    ELSE Milli(8)

\* C3: once adjust_learning_rate has run for loop index epoch, the learning
\* rate of the optimizer is args.lr times the tabulated multiplier of epoch + 1,
\* whatever the learning rate was before and whether or not the launch resumed.
C3_LearningRateSchedule ==
    pc \in {"train", "validate", "save"} =>
        lr = RMul(args.lr, ScheduleTable(epoch + 1))

\* the third decay, taken in a launch resumed just below the threshold
C3_Witness ==
    /\ pc = "train"
    /\ epoch + 1 = 160
    /\ outcome = "loaded"
    /\ lr = RMul(args.lr, Milli(8))

\* each entry is the entry before it plus one
Consecutive(s) == \A i \in 1 .. Len(s) - 1 : s[i + 1] = s[i] + 1

\* a checkpoint record written after loop epoch e: epoch e + 1, parameters
\* trained through e
RecordAfterEpoch(rec) ==
    /\ rec.state_dict # <<>>
    /\ rec.epoch = Last(rec.state_dict) + 1
    /\ Consecutive(rec.state_dict)

\* C6: every checkpoint file holds the epoch after the last one trained into
\* its parameters; a launch that loads one starts its loop at that epoch (not
\* at --start-epoch) with the file's best_prec1 and parameters; the parameters
\* are therefore always the result of training consecutive epochs, none twice
\* and none skipped, up to args.epochs - 1 when a loop has ended, each at the
\* learning rate of the schedule.
C6_ResumeRoundTrip ==
    /\ \A p \in Paths : IsFile(p) => RecordAfterEpoch(fs[p][1])
    /\ (pc = "loop" /\ log = <<>> /\ outcome = "loaded") =>
          LET checkpoint == fs[args.resume][1] IN
          /\ args.start_epoch = checkpoint.epoch
          /\ epoch = checkpoint.epoch
          /\ best_prec1 = checkpoint.best_prec1
          /\ model_params = checkpoint.state_dict
    /\ Consecutive(model_params)
    /\ (pc \in {"loop", "train"} /\ model_params # <<>>) =>
          epoch = Last(model_params) + 1
    /\ (pc = "done" /\ log # <<>>) => Last(model_params) = args.epochs - 1
    /\ pc \in {"train", "validate", "save"} =>
          lr = AdjustedLr(args.lr, epoch + 1)

\* a resumed launch that ignored a different --start-epoch and ran to the end
C6_Witness ==
    /\ pc = "done"
    /\ outcome = "loaded"
    /\ cli_start # args.start_epoch
    /\ runPrecs # <<>>
    /\ Len(model_params) > Len(runPrecs)

\* C7: when --resume names a path that is no file, the resume block ends
\* without an error having reported that no checkpoint was found, and the loop
\* starts with the fresh parameters, best_prec1 = 0 and the --start-epoch of
\* the command line.
C7_MissingResumeFile ==
    /\ (pc \in {"loop", "done", "crashed"} /\ log = <<>>
        /\ args.resume # "" /\ ~IsFile(args.resume)) =>
          /\ pc # "crashed"
          /\ outcome = "notfound"
          /\ model_params = <<>>
          /\ best_prec1 = 0
          /\ epoch = cli_start
    /\ outcome = "notfound" => args.start_epoch = cli_start /\ restored = -1

\* a restart that names a missing file while a checkpoint exists
C7_Witness ==
    /\ pc = "loop"
    /\ log = <<>>
    /\ outcome = "notfound"
    /\ IsFile(CheckpointPath)
    /\ args.start_epoch > 0
    /\ args.start_epoch < args.epochs

RECURSIVE ExpectedLog(_, _)
\* the steps of the epochs first .. last - 1, in the order the claim gives
ExpectedLog(first, last) ==
    IF first >= last THEN <<>>
    ELSE <<<<"lr", first>>, <<"train", first>>, <<"validate", first>>,
           <<"checkpoint", first + 1>>>> \o ExpectedLog(first + 1, last)

IsPrefix(s, t) == Len(s) <= Len(t) /\ SubSeq(t, 1, Len(s)) = s

\* C9: the steps of a launch are those of the epochs start_epoch .. epochs - 1
\* in increasing order, each epoch adjusting the learning rate, training,
\* validating and writing one checkpoint record with epoch = index + 1, that
\* record being on disk before the next epoch starts; a launch that ended its
\* loop took all of them, and none when start_epoch >= epochs.
C9_EpochSteps ==
    /\ pc = "resume" => log = <<>>
    /\ pc # "resume" => IsPrefix(log, ExpectedLog(args.start_epoch, args.epochs))
    /\ pc = "done" => log = ExpectedLog(args.start_epoch, args.epochs)
    /\ (pc = "done" /\ args.start_epoch >= args.epochs) => log = <<>>
    /\ pc \in {"loop", "done"} => Len(log) = 4 * Len(runPrecs)
    /\ (pc \in {"loop", "done"} /\ log # <<>>) =>
          /\ IsFile(CheckpointPath)
          /\ fs[CheckpointPath][1].epoch = epoch

\* a launch that ended after two epochs, the last of which did not improve
C9_Witness ==
    /\ pc = "done"
    /\ Len(log) = 8
    /\ ~copied

(***************************************************************************)
(* Properties of AverageMeter.                                             *)
(***************************************************************************)
RECURSIVE WeightedSum(_)
\* the sum of value * weight over a sequence of update calls
WeightedSum(calls) ==
    IF calls = <<>> THEN Zero
    ELSE RAdd(WeightedSum(SubSeq(calls, 1, Len(calls) - 1)),
              RMul(Last(calls)[1], RInt(Last(calls)[2])))

RECURSIVE TotalWeight(_)
\* the sum of the weights of a sequence of update calls
TotalWeight(calls) ==
    IF calls = <<>> THEN 0
    ELSE TotalWeight(SubSeq(calls, 1, Len(calls) - 1)) + Last(calls)[2]

\* C4: after the update calls made since construction or reset, val is the
\* last value, sum the sum of value * weight, count the sum of the weights
\* and, when that is positive, avg is sum / count, the weighted mean.
C4_MeterAverage ==
    updates # <<>> =>
        /\ meter.val = Last(updates)[1]
        /\ meter.sum = WeightedSum(updates)
        /\ meter.count = TotalWeight(updates)
        /\ meter.count > 0 =>
              /\ meter.avg = RDivInt(WeightedSum(updates), TotalWeight(updates))
              /\ meter.avg = RDivInt(meter.sum, meter.count)

\* three updates of unequal weights whose mean is neither a value nor a whole
C4_Witness ==
    /\ Len(updates) = 3
    /\ updates[1][2] # updates[2][2]
    /\ updates[1][1] # updates[2][1]
    /\ meter.count > 2
    /\ meter.avg[2] > 2
    /\ meter.avg # meter.val

\* C5: reset leaves every field 0, the average reads 0 until the first update,
\* and no update call, whatever its value and its weight >= 0, ends in an
\* error.
C5_MeterNeverRaises ==
    /\ updates = <<>> => meter = ResetMeter
    /\ ~raised

(***************************************************************************)
(* Properties of accuracy().                                               *)
(***************************************************************************)
\* classes other than the label that score at least as high as it in sample i
NotBelowLabel(i) ==
    {c \in Classes \ {target[i]} : output[i][c] >= output[i][target[i]]}

\* classes that score higher than the label in sample i
AboveLabel(i) == {c \in Classes : output[i][c] > output[i][target[i]]}

\* samples whose label is among the k highest-scoring classes however equal
\* scores are ranked
SurelyInTopK(k) == {i \in 1 .. Len(target) : Cardinality(NotBelowLabel(i)) < k}

\* samples whose label is among the k highest-scoring classes for some
\* ranking of equal scores
PossiblyInTopK(k) == {i \in 1 .. Len(target) : Cardinality(AboveLabel(i)) < k}

Percent(n, size) == Norm(<<100 * n, size>>)

\* C8: accuracy() returns one result per requested k, in the order asked:
\* 100 * n / batch size, n counting the samples whose label is among the k
\* highest-scoring classes (every sample whose label is there however ties are
\* ranked, and no sample whose label is there for no ranking); top-1 is 100
\* when every label is the one highest-scoring class and 0 when none is.
C8_TopKAccuracy ==
    (acc_pc = "returned" /\ target # <<>>) =>
        /\ Len(res) = Len(topk)
        /\ \A j \in 1 .. Len(topk) :
              /\ \E n \in Cardinality(SurelyInTopK(topk[j]))
                            .. Cardinality(PossiblyInTopK(topk[j])) :
                    res[j] = Percent(n, Len(target))
              /\ (topk[j] = 1 /\ SurelyInTopK(1) = 1 .. Len(target)) =>
                    res[j] = RInt(100)
              /\ (topk[j] = 1 /\ PossiblyInTopK(1) = {}) => res[j] = Zero

\* top-2 then top-1 of two samples without equal scores: one label ranked
\* first, the other second
C8_Witness ==
    /\ acc_pc = "returned"
    /\ Len(target) = 2
    /\ topk = <<2, 1>>
    /\ \A i \in 1 .. 2 : \A c, d \in Classes : c # d => output[i][c] # output[i][d]
    /\ res = <<RInt(100), RInt(50)>>

(***************************************************************************)
(* Properties of validate().                                               *)
(***************************************************************************)
\* C10: the meters of a call start from zero, and the value validate() returns
\* is 100 * correctly classified samples / samples of the whole validation
\* set, whatever the batch size, the smaller last batch and the order in which
\* the loader yields the samples.
C10_ValidateAverage ==
    /\ (val_pc = "iterate" /\ seen_total = 0) => top1 = ResetMeter
    /\ val_pc = "iterate" => seen_total + val_left = val_size
    /\ val_pc = "returned" =>
          /\ seen_total = val_size
          /\ val_ret = Percent(seen_correct, val_size)

\* three samples in batches of two and one, one sample classified correctly
C10_Witness ==
    /\ val_pc = "returned"
    /\ val_size = 3
    /\ batch_size = 2
    /\ seen_correct = 1
    /\ val_ret = <<100, 3>>

====
